---- MODULE Spec2Model ----
(***************************************************************************)
(* Three batch tools: computeStatistics.py (P1), convertNumbers.py (P2)    *)
(* and wordCount.py (P3).  Each reads a text file line by line, reports    *)
(* rejected lines on the console, builds an aggregate, prints a report and *)
(* writes the same report to a results file.                               *)
(*                                                                         *)
(* Text is modelled as a sequence of one-character strings, so that the    *)
(* character scans of the source (strip, digit tests, tokenizing, digit    *)
(* by digit conversion) are computed and not assumed.                      *)
(***************************************************************************)
EXTENDS Integers, Sequences, FiniteSets, TLC

VARIABLES
    pc,            \* position of the run / of the function under study
    tool,          \* the program that runs ("stats", "conv", "words") or the function studied
    file_state,    \* the input file: "ok", "missing" or "unreadable"
    lines,         \* the input file: a sequence of raw lines (line terminator removed)
    line_num,      \* line_num of the read loops
    values,        \* computeStatistics: accepted values
    result,        \* computeStatistics: the StatisticsResult
    rows,          \* convertNumbers: accepted rows (val, bin_s, hex_s)
    all_words,     \* wordCount: tokens of the accepted lines
    words,         \* _count_words: its argument
    pos,           \* _count_words: number of words its loop has consumed
    counts,        \* _count_words: dict word -> frequency
    order,         \* _count_words: words in first-appearance order
    console,       \* standard output, one entry per printed line
    results_file,  \* content written to the results file (<<>>: nothing written)
    status,        \* return value of main ("running" until it returns)
    n,             \* _convert_number: its argument
    bin_s,         \* _convert_number: first component of its result
    hex_s,         \* _convert_number: second component of its result
    line,          \* _parse_int: its argument
    ok,            \* _parse_int: first component of its result
    value          \* _parse_int: second component of its result

vars == <<pc, tool, file_state, lines, line_num, values, result, rows, all_words, words, pos,
          counts, order, console, results_file, status, n, bin_s, hex_s, line, ok,
          value>>

runVars   == <<tool, file_state, lines, line_num, rows, all_words, console, results_file, status>>
statVars  == <<values, result>>
countVars == <<words, pos, counts, order>>
convVars  == <<n, bin_s, hex_s>>
parseVars == <<line, ok, value>>

----------------------------------------------------------------------------
(* Bounds of the model                                                     *)

\* _convert_number is studied on -MaxNeg .. MaxN
MaxNeg == 1100
MaxN == 4200
\* _parse_int is studied on every text over ParseAlphabet of length <= MaxLen
MaxLen == 4
\* _compute_statistics is studied on every sequence over StudyValues of length <= MaxValues
MaxValues == 4
\* _count_words is studied on every sequence over StudyWords of length <= MaxWords
MaxWords == 6
\* the runs read files of at most MaxLines lines
MaxLines == 3

----------------------------------------------------------------------------
(* Text                                                                    *)

None == "None"

\* ord() of the characters the model uses
Ord == ("\t" :> 9) @@ (" " :> 32) @@ ("#" :> 35) @@ ("+" :> 43) @@ ("," :> 44)
       @@ ("-" :> 45) @@ ("." :> 46) @@ ("/" :> 47)
       @@ ("0" :> 48) @@ ("1" :> 49) @@ ("2" :> 50) @@ ("3" :> 51) @@ ("4" :> 52)
       @@ ("5" :> 53) @@ ("6" :> 54) @@ ("7" :> 55) @@ ("8" :> 56) @@ ("9" :> 57)
       @@ (":" :> 58) @@ ("A" :> 65) @@ ("N" :> 78) @@ ("a" :> 97) @@ ("b" :> 98)
       @@ ("n" :> 110) @@ ("x" :> 120)

\* str.isspace() on one character
isspace(ch) == ch \in {" ", "\t"}

RECURSIVE lstrip(_)
lstrip(s) == IF s # <<>> /\ isspace(Head(s)) THEN lstrip(Tail(s)) ELSE s

RECURSIVE rstrip(_)
rstrip(s) ==
    IF s # <<>> /\ isspace(s[Len(s)]) THEN rstrip(SubSeq(s, 1, Len(s) - 1)) ELSE s

\* str.strip() without argument
strip(s) == rstrip(lstrip(s))

\* s.rstrip(ch) for a single character ch
RECURSIVE rstrip_char(_, _)
rstrip_char(s, ch) ==
    IF s # <<>> /\ s[Len(s)] = ch THEN rstrip_char(SubSeq(s, 1, Len(s) - 1), ch) ELSE s

\* list.reverse()
reverse(s) == [i \in 1..Len(s) |-> s[Len(s) + 1 - i]]

\* ch * k
repeat(ch, k) == [i \in 1..k |-> ch]

\* all sequences over S of length <= k
SeqsUpTo(S, k) == UNION {[1..m -> S] : m \in 0..k}

----------------------------------------------------------------------------
(* convertNumbers.py                                                       *)

BIN_NEG_BITS == 10
HEX_NEG_DIGITS == 10

\* _parse_int: the pair (ok, value_or_none)
RECURSIVE parse_digits(_, _)
parse_digits(text, acc) ==
    IF text = <<>> THEN acc
    ELSE parse_digits(Tail(text), acc * 10 + (Ord[Head(text)] - Ord["0"]))

\* _parse_int without its second emptiness test: a lone sign parses as 0
_parse_int_lone_sign(raw) ==
    LET text0 == strip(raw)
        signed == text0 # <<>> /\ Head(text0) \in {"+", "-"}
        sign == IF signed /\ Head(text0) = "-" THEN -1 ELSE 1
        text == IF signed THEN Tail(text0) ELSE text0
    IN  IF text0 = <<>> THEN <<FALSE, None>>
        ELSE IF \E i \in 1..Len(text) :
                    Ord[text[i]] < Ord["0"] \/ Ord[text[i]] > Ord["9"]
             THEN <<FALSE, None>>
        ELSE <<TRUE, sign * parse_digits(text, 0)>>

_parse_int(raw) ==
    LET text0 == strip(raw)
        signed == text0 # <<>> /\ Head(text0) \in {"+", "-"}
        sign == IF signed /\ Head(text0) = "-" THEN -1 ELSE 1
        text == IF signed THEN Tail(text0) ELSE text0
    IN  IF text0 = <<>> THEN <<FALSE, None>>
        ELSE IF text = <<>> THEN <<FALSE, None>>
        ELSE IF \E i \in 1..Len(text) :
                    Ord[text[i]] < Ord["0"] \/ Ord[text[i]] > Ord["9"]
             THEN <<FALSE, None>>
        ELSE <<TRUE, sign * parse_digits(text, 0)>>

\* the while loop of _to_binary_nonneg: remainders, least significant first
RECURSIVE binary_loop(_, _)
binary_loop(x, bits) ==
    IF x > 0 THEN binary_loop(x \div 2, Append(bits, IF x % 2 = 1 THEN "1" ELSE "0"))
    ELSE bits

_to_binary_nonneg(m) ==
    IF m = 0 THEN <<"0">> ELSE reverse(binary_loop(m, <<>>))

HexDigits == <<"0", "1", "2", "3", "4", "5", "6", "7", "8", "9", "A", "B", "C", "D", "E", "F">>

\* the while loop of _to_hex_nonneg
RECURSIVE hex_loop(_, _)
hex_loop(x, out) ==
    IF x > 0 THEN hex_loop(x \div 16, Append(out, HexDigits[(x % 16) + 1]))
    ELSE out

\* _to_hex_nonneg without out.reverse()
_to_hex_nonneg_unreversed(m) ==
    IF m = 0 THEN <<"0">> ELSE hex_loop(m, <<>>)

_to_hex_nonneg(m) ==
    IF m = 0 THEN <<"0">> ELSE reverse(hex_loop(m, <<>>))

\* _to_twos_complement_binary_10bit without the left padding
_to_twos_complement_binary_10bit_unpadded(m) ==
    _to_binary_nonneg((2 ^ BIN_NEG_BITS) + m)

_to_twos_complement_binary_10bit(m) ==
    LET base == 2 ^ BIN_NEG_BITS
        val == base + m
        b == _to_binary_nonneg(val)
    IN  IF Len(b) < BIN_NEG_BITS THEN repeat("0", BIN_NEG_BITS - Len(b)) \o b ELSE b

\* the for loop of _to_sign_extended_hex_10digits_from_bin
RECURSIVE bin_value(_, _)
bin_value(s, val) ==
    IF s = <<>> THEN val
    ELSE bin_value(Tail(s), val * 2 + (IF Head(s) = "1" THEN 1 ELSE 0))

_to_sign_extended_hex_10digits_from_bin(bin_10) ==
    LET val == bin_value(bin_10, 0)
        low_hex == _to_hex_nonneg(val)
        low_hex2 == IF Len(low_hex) < 2 THEN repeat("0", 2 - Len(low_hex)) \o low_hex
                    ELSE low_hex
    IN  IF Len(low_hex2) < HEX_NEG_DIGITS
        THEN repeat("F", HEX_NEG_DIGITS - Len(low_hex2)) \o low_hex2
        ELSE low_hex2

\* _convert_number: the pair (bin_str, hex_str)
_convert_number(m) ==
    IF m >= 0 THEN <<_to_binary_nonneg(m), _to_hex_nonneg(m)>>
    ELSE LET bin_10 == _to_twos_complement_binary_10bit(m)
         IN  <<bin_10, _to_sign_extended_hex_10digits_from_bin(bin_10)>>

----------------------------------------------------------------------------
(* computeStatistics.py                                                    *)
(*                                                                         *)
(* A float is [isnan, fp]: either NaN or the number fp / Scale.  Every     *)
(* literal of the study has at most two fractional digits and Scale is a   *)
(* multiple of 2 * 100, so the literals, their sums and the halves of      *)
(* their pairwise sums are exact, as they are in binary floating point     *)
(* for these small values.  Means and variances are kept as exact          *)
(* quotients [num, den].                                                   *)

Scale == 2 * 100

NaN == [isnan |-> TRUE, fp |-> 0]
Float(fp) == [isnan |-> FALSE, fp |-> fp]

\* a == b and a < b on floats: both are false as soon as one side is NaN
FloatEq(a, b) == ~a.isnan /\ ~b.isnan /\ a.fp = b.fp
FloatLt(a, b) == ~a.isnan /\ ~b.isnan /\ a.fp < b.fp
FloatAdd(a, b) == IF a.isnan \/ b.isnan THEN NaN ELSE Float(a.fp + b.fp)
FloatHalf(a) == IF a.isnan THEN NaN ELSE Float(a.fp \div 2)

IsDigit(ch) == ch \in {"0", "1", "2", "3", "4", "5", "6", "7", "8", "9"}

\* str.lower() on the letters of the model
lower(s) == [i \in 1..Len(s) |-> IF s[i] = "N" THEN "n" ELSE IF s[i] = "A" THEN "a" ELSE s[i]]

\* text.replace(",", ".")
replace_comma(s) == [i \in 1..Len(s) |-> IF s[i] = "," THEN "." ELSE s[i]]

\* index of the first "." of s, Len(s) + 1 when there is none
RECURSIVE first_dot(_, _)
first_dot(s, i) == IF i > Len(s) \/ s[i] = "." THEN i ELSE first_dot(s, i + 1)

RECURSIVE pow10(_)
pow10(k) == IF k = 0 THEN 1 ELSE 10 * pow10(k - 1)

\* float(text) on a stripped text over the model's characters (no exponent,
\* underscore or "inf" can be written with them): the pair (parsed, value).
float_of(text) ==
    LET signed == text # <<>> /\ Head(text) \in {"+", "-"}
        sign == IF signed /\ Head(text) = "-" THEN -1 ELSE 1
        body == IF signed THEN Tail(text) ELSE text
        d == first_dot(body, 1)
        int_part == SubSeq(body, 1, d - 1)
        frac_part == SubSeq(body, d + 1, Len(body))
    IN  IF lower(body) = <<"n", "a", "n">> THEN <<TRUE, NaN>>
        ELSE IF /\ \A i \in 1..Len(int_part) : IsDigit(int_part[i])
                /\ \A i \in 1..Len(frac_part) : IsDigit(frac_part[i])
                /\ Len(int_part) + Len(frac_part) >= 1
             THEN <<TRUE, Float(sign * (parse_digits(int_part, 0) * Scale
                                  + (parse_digits(frac_part, 0) * Scale)
                                        \div pow10(Len(frac_part))))>>
        ELSE <<FALSE, None>>

\* _try_parse_number: the pair (success, value)
_try_parse_number(raw) ==
    LET text == strip(raw)
    IN  IF text = <<>> THEN <<FALSE, None>>
        ELSE float_of(replace_comma(text))

\* _mean: total / count, kept as the quotient [isnan, num, den] of fp units
RECURSIVE float_sum(_)
float_sum(vs) == IF vs = <<>> THEN Float(0) ELSE FloatAdd(Head(vs), float_sum(Tail(vs)))

_mean(vs) ==
    LET total == float_sum(vs)
        count == Len(vs)
    IN  IF count > 0 THEN [isnan |-> total.isnan, num |-> total.fp, den |-> count]
        ELSE [isnan |-> FALSE, num |-> 0, den |-> 1]

_median(sorted_values) ==
    LET len == Len(sorted_values)
        mid == len \div 2
    IN  IF len = 0 THEN Float(0)
        ELSE IF len % 2 = 1 THEN sorted_values[mid + 1]
        ELSE FloatHalf(FloatAdd(sorted_values[mid], sorted_values[mid + 1]))

(* sorted(values): CPython's list.sort on fewer than 64 floats is count_run  *)
(* (the longest initial run, reversed when strictly descending) followed by  *)
(* binarysort (binary insertion of the remaining elements), every decision   *)
(* taken by "<" alone.                                                       *)
RECURSIVE run_len(_, _, _)
run_len(s, k, descending) ==
    IF k > Len(s) THEN k - 1
    ELSE IF FloatLt(s[k], s[k - 1]) = descending THEN run_len(s, k + 1, descending)
    ELSE k - 1

RECURSIVE bisect(_, _, _, _)
bisect(s, pivot, l, r) ==
    IF l >= r THEN l
    ELSE LET p == l + ((r - l) \div 2)
         IN  IF FloatLt(pivot, s[p]) THEN bisect(s, pivot, l, p)
             ELSE bisect(s, pivot, p + 1, r)

RECURSIVE binarysort(_, _)
binarysort(s, start) ==
    IF start > Len(s) THEN s
    ELSE LET pivot == s[start]
             l == bisect(s, pivot, 1, start)
             moved == [i \in 1..Len(s) |->
                          IF i < l \/ i > start THEN s[i]
                          ELSE IF i = l THEN pivot
                          ELSE s[i - 1]]
         IN  binarysort(moved, start + 1)

sorted(vs) ==
    IF Len(vs) < 2 THEN vs
    ELSE LET descending == FloatLt(vs[2], vs[1])
             run == run_len(vs, 3, descending)
             s0 == IF descending
                   THEN [i \in 1..Len(vs) |-> IF i <= run THEN vs[run + 1 - i] ELSE vs[i]]
                   ELSE vs
         IN  binarysort(s0, run + 1)

(* _mode.  The dicts freq and first_pos always hold the same keys, inserted  *)
(* together: they are one table, in insertion order, of entries              *)
(* [key, count, first].  A key is found when it is equal as a float; every   *)
(* parsed NaN is an object of its own and equal to nothing, so it is never   *)
(* found and always inserted.                                                *)
lookup(table, v) ==
    IF \E j \in 1..Len(table) : FloatEq(table[j].key, v)
    THEN CHOOSE j \in 1..Len(table) : FloatEq(table[j].key, v)
    ELSE 0

\* the first loop of _mode, from the 0-based index idx on
RECURSIVE mode_count(_, _, _)
mode_count(vs, idx, table) ==
    IF idx >= Len(vs) THEN table
    ELSE LET v == vs[idx + 1]
             j == lookup(table, v)
         IN  mode_count(vs, idx + 1,
                 IF j = 0 THEN Append(table, [key |-> v, count |-> 1, first |-> idx])
                 ELSE [table EXCEPT ![j].count = @ + 1])

RECURSIVE max_freq(_, _)
max_freq(table, max_count) ==
    IF table = <<>> THEN max_count
    ELSE max_freq(Tail(table),
                  IF Head(table).count > max_count THEN Head(table).count ELSE max_count)

\* the last loop of _mode over freq.items(); best is [found, first, val],
\* found being "best_first is not None"
RECURSIVE mode_best(_, _, _)
mode_best(table, max_count, best) ==
    IF table = <<>> THEN best
    ELSE LET e == Head(table)
         IN  mode_best(Tail(table), max_count,
                 IF e.count = max_count /\ (~best.found \/ e.first < best.first)
                 THEN [found |-> TRUE, first |-> e.first, val |-> e.key]
                 ELSE best)

\* that loop with the comparison turned round: the latest first occurrence wins
RECURSIVE mode_best_latest(_, _, _)
mode_best_latest(table, max_count, best) ==
    IF table = <<>> THEN best
    ELSE LET e == Head(table)
         IN  mode_best_latest(Tail(table), max_count,
                 IF e.count = max_count /\ (~best.found \/ e.first > best.first)
                 THEN [found |-> TRUE, first |-> e.first, val |-> e.key]
                 ELSE best)

NoBest == [found |-> FALSE, first |-> 0, val |-> None]

\* _mode breaking ties towards the latest first occurrence
_mode_latest(vs) ==
    LET table == mode_count(vs, 0, <<>>)
        max_count == max_freq(table, 0)
    IN  IF max_count <= 1 THEN <<FALSE, None>>
        ELSE <<TRUE, mode_best_latest(table, max_count, NoBest).val>>

\* _mode: the pair (has_mode, mode_value)
_mode(vs) ==
    LET table == mode_count(vs, 0, <<>>)
        max_count == max_freq(table, 0)
    IN  IF max_count <= 1 THEN <<FALSE, None>>
        ELSE <<TRUE, mode_best(table, max_count, NoBest).val>>

_population_variance(vs, mean_val) ==
    LET len == Len(vs)
        sq(v) == (v.fp * mean_val.den - mean_val.num) * (v.fp * mean_val.den - mean_val.num)
        acc[i \in 0..len] == IF i = 0 THEN 0 ELSE acc[i - 1] + sq(vs[i])
    IN  IF len = 0 THEN [isnan |-> FALSE, num |-> 0, den |-> 1]
        ELSE IF mean_val.isnan THEN [isnan |-> TRUE, num |-> 0, den |-> 1]
        ELSE [isnan |-> FALSE, num |-> acc[len], den |-> mean_val.den * mean_val.den * len]

\* variance_val ** 0.5, kept symbolic
_population_std(variance_val) == [sqrt_of |-> variance_val]

\* the decimal digits of q >= 0, most significant first
RECURSIVE int_digits(_)
int_digits(q) ==
    IF q < 10 THEN <<HexDigits[q + 1]>> ELSE Append(int_digits(q \div 10), HexDigits[(q % 10) + 1])

\* the first k fractional digits of rem / Scale, by long division
RECURSIVE frac_digits(_, _)
frac_digits(rem, k) ==
    IF k = 0 THEN <<>>
    ELSE <<HexDigits[((rem * 10) \div Scale) + 1]>> \o frac_digits((rem * 10) % Scale, k - 1)

\* f"{x:.10f}" (the representation has no negative zero, which Python prints "-0")
fixed10(x) ==
    IF x.isnan THEN <<"n", "a", "n">>
    ELSE LET mag == IF x.fp < 0 THEN -x.fp ELSE x.fp
         IN  (IF x.fp < 0 THEN <<"-">> ELSE <<>>)
             \o int_digits(mag \div Scale) \o <<".">> \o frac_digits(mag % Scale, 10)

\* _format_number on a float
_format_number(x) ==
    LET s == rstrip_char(rstrip_char(fixed10(x), "0"), ".")
    IN  IF s # <<>> THEN s ELSE <<"0">>

\* _format_number on a quotient or on the elapsed time: its digits are not computed
formatted(x) == [format_of |-> x]

NA == <<"#", "N", "/", "A">>

\* the elapsed wall-clock time: whatever the clock says
elapsed == "elapsed"

\* the StatisticsResult of _compute_statistics
_compute_statistics(vs) ==
    LET values_sorted == sorted(vs)
        mean_val == _mean(vs)
        median_val == _median(values_sorted)
        m == _mode(vs)
        mode_str == IF m[1] THEN _format_number(m[2]) ELSE NA
        var_val == _population_variance(vs, mean_val)
        sd_val == _population_std(var_val)
    IN  [count |-> Len(vs), mean |-> mean_val, median |-> median_val, mode |-> mode_str,
         sd |-> sd_val, variance |-> var_val, elapsed |-> elapsed]

\* a line of a report: its label ("row" for a data row) and the rest
ReportLine(label, text) == [kind |-> "report", label |-> label, text |-> text]

\* _build_report of computeStatistics.py: the lines of the report
stats_build_report(r) ==
    << ReportLine("COUNT", r.count),
       ReportLine("MEAN", formatted(r.mean)),
       ReportLine("MEDIAN", _format_number(r.median)),
       ReportLine("MODE", r.mode),
       ReportLine("SD (Population)", formatted(r.sd)),
       ReportLine("VARIANCE (Population)", formatted(r.variance)),
       ReportLine("TIME (seconds)", formatted(r.elapsed)) >>

----------------------------------------------------------------------------
(* wordCount.py                                                            *)

\* the scan of _tokenize from character i on: st = [words, current]
RECURSIVE tokenize_scan(_, _, _)
tokenize_scan(text, i, st) ==
    IF i > Len(text) THEN st
    ELSE tokenize_scan(text, i + 1,
            IF isspace(text[i])
            THEN (IF st.current # <<>>
                  THEN [words |-> Append(st.words, st.current), current |-> <<>>]
                  ELSE st)
            ELSE [st EXCEPT !.current = Append(@, text[i])])

_tokenize(text) ==
    LET st == tokenize_scan(text, 1, [words |-> <<>>, current |-> <<>>])
    IN  IF st.current # <<>> THEN Append(st.words, st.current) ELSE st.words

\* that iteration appending to order whether or not the word is new
count_word_always_append(co, w) ==
    [counts |-> IF w \in DOMAIN co.counts THEN [co.counts EXCEPT ![w] = @ + 1]
                ELSE (w :> 1) @@ co.counts,
     order |-> Append(co.order, w)]

\* one iteration of the loop of _count_words on the pair [counts, order]
count_word(co, w) ==
    IF w \in DOMAIN co.counts
    THEN [counts |-> [co.counts EXCEPT ![w] = @ + 1], order |-> co.order]
    ELSE [counts |-> (w :> 1) @@ co.counts, order |-> Append(co.order, w)]

EmptyCounts == [counts |-> <<>>, order |-> <<>>]

\* _count_words: the pair [counts, order]
RECURSIVE count_words_from(_, _, _)
count_words_from(ws, i, co) ==
    IF i > Len(ws) THEN co ELSE count_words_from(ws, i + 1, count_word(co, ws[i]))

_count_words(ws) == count_words_from(ws, 1, EmptyCounts)

\* _build_report of wordCount.py
words_build_report(cnt, ord) ==
    <<ReportLine("WORD", "COUNT")>>
    \o [i \in 1..Len(ord) |-> ReportLine("row", <<ord[i], cnt[ord[i]]>>)]
    \o <<ReportLine("TIME (seconds)", formatted(elapsed))>>

\* _build_report of convertNumbers.py
conv_build_report(rs) ==
    <<ReportLine("ITEM", <<"VALUE", "BIN", "HEX">>)>>
    \o [i \in 1..Len(rs) |-> ReportLine("row", <<i>> \o rs[i])]
    \o <<ReportLine("TIME (seconds)", formatted(elapsed))>>

----------------------------------------------------------------------------
(* The runs: main of the three programs, called with one argument          *)

Tools == {"stats", "conv", "words"}

\* the raw lines the files of the study are made of
StatLines ==
    { <<"1">>, <<"2">>, <<" ", "3", " ">>, <<"1", ",", "5">>, <<"n", "a", "n">>,
      <<"1", "x">>, <<>>, <<" ">> }
ConvLines ==
    { <<"5">>, <<"-", "6">>, <<" ", "+", "1", "2">>, <<"-">>, <<"1", " ", "2">>,
      <<"x">>, <<>>, <<"\t">> }
WordLines ==
    { <<"a">>, <<"b", " ", "a">>, <<" ", "A", "\t", "a", "b">>, <<"a", ",">>,
      <<>>, <<" ">> }

LinesOf(t) == IF t = "stats" THEN StatLines ELSE IF t = "conv" THEN ConvLines ELSE WordLines

StudyIdle ==
    /\ values = <<>> /\ result = None
    /\ words = <<>> /\ pos = 0 /\ counts = <<>> /\ order = <<>>
    /\ n = 0 /\ bin_s = <<>> /\ hex_s = <<>>
    /\ line = <<>> /\ ok = FALSE /\ value = None

RunIdle ==
    /\ file_state = "ok" /\ lines = <<>> /\ line_num = 0
    /\ rows = <<>> /\ all_words = <<>>
    /\ console = <<>> /\ results_file = <<>> /\ status = "running"

\* main is entered with one argument; a missing file has no lines
Init ==
    /\ pc = "read"
    /\ tool \in Tools
    /\ file_state \in {"ok", "missing", "unreadable"}
    /\ lines \in SeqsUpTo(LinesOf(tool), MaxLines)
    /\ file_state = "missing" => lines = <<>>
    /\ line_num = 0
    /\ rows = <<>> /\ all_words = <<>>
    /\ console = <<>> /\ results_file = <<>> /\ status = "running"
    /\ StudyIdle

Invalid(num, text) == [kind |-> "invalid", line_num |-> num, text |-> text]
Error(text) == [kind |-> "error", text |-> text]
Warning == [kind |-> "warning", text |-> "could not write"]

\* open() raises FileNotFoundError, or open() or the iteration raises OSError:
\* the three programs print the error and main returns 1
ReadError ==
    /\ pc = "read"
    /\ \/ file_state = "missing" /\ line_num = 0
          /\ console' = Append(console, Error("file not found"))
       \/ file_state = "unreadable"
          /\ console' = Append(console, Error("cannot read file"))
    /\ status' = 1
    /\ pc' = "done"
    /\ UNCHANGED <<tool, file_state, lines, line_num, rows, all_words, results_file>>
    /\ UNCHANGED <<statVars, countVars, convVars, parseVars>>

\* the next line can be read
CanRead == pc = "read" /\ file_state # "missing" /\ line_num < Len(lines)

\* the file was read to its end
AtEnd == pc = "read" /\ file_state = "ok" /\ line_num = Len(lines)

\* print(report, end="") and the write of the results file, which may fail
Emit(report) ==
    /\ \/ /\ results_file' = report
          /\ console' = console \o report
       \/ \E k \in 0..(Len(report) - 1) :
            /\ results_file' = SubSeq(report, 1, k)
            /\ console' = (console \o report) \o <<Warning>>
    /\ status' = 0
    /\ pc' = "done"

\* that iteration leaving the loop at the first line it does not accept
StatsReadLineBreak ==
    /\ tool = "stats" /\ CanRead
    /\ LET raw_line == lines[line_num + 1]
           p == _try_parse_number(raw_line)
           bad == strip(raw_line)
       IN  /\ line_num' = IF p[1] THEN line_num + 1 ELSE Len(lines)
           /\ values' = IF p[1] THEN Append(values, p[2]) ELSE values
           /\ console' = IF ~p[1] /\ bad # <<>>
                         THEN Append(console, Invalid(line_num + 1, bad))
                         ELSE console
    /\ UNCHANGED <<pc, tool, file_state, lines, rows, all_words, results_file, status, result>>
    /\ UNCHANGED <<countVars, convVars, parseVars>>

\* computeStatistics.py, _read_values: one iteration of the loop
StatsReadLine ==
    /\ tool = "stats" /\ CanRead
    /\ LET raw_line == lines[line_num + 1]
           p == _try_parse_number(raw_line)
           bad == strip(raw_line)
       IN  /\ line_num' = line_num + 1
           /\ values' = IF p[1] THEN Append(values, p[2]) ELSE values
           /\ console' = IF ~p[1] /\ bad # <<>>
                         THEN Append(console, Invalid(line_num + 1, bad))
                         ELSE console
    /\ UNCHANGED <<pc, tool, file_state, lines, rows, all_words, results_file, status, result>>
    /\ UNCHANGED <<countVars, convVars, parseVars>>

\* main without its "no valid numeric data" guard
StatsFinishAlwaysReport ==
    /\ tool = "stats" /\ AtEnd
    /\ result' = _compute_statistics(values)
    /\ Emit(stats_build_report(result'))
    /\ UNCHANGED <<tool, file_state, lines, line_num, values, rows, all_words>>
    /\ UNCHANGED <<countVars, convVars, parseVars>>

\* computeStatistics.py, main after _read_values returned the values
StatsFinish ==
    /\ tool = "stats" /\ AtEnd
    /\ IF values = <<>>
       THEN /\ console' = Append(console, Error("no valid numeric data"))
            /\ status' = 1
            /\ pc' = "done"
            /\ UNCHANGED <<result, results_file>>
       ELSE /\ result' = _compute_statistics(values)
            /\ Emit(stats_build_report(result'))
    /\ UNCHANGED <<tool, file_state, lines, line_num, values, rows, all_words>>
    /\ UNCHANGED <<countVars, convVars, parseVars>>

\* that iteration numbering a diagnostic by the rows accepted so far
ConvReadRowCountAccepted ==
    /\ tool = "conv" /\ CanRead
    /\ LET raw == lines[line_num + 1]
           p == _parse_int(raw)
           bad == strip(raw)
       IN  /\ line_num' = line_num + 1
           /\ console' = IF ~p[1] /\ bad # <<>>
                         THEN Append(console, Invalid(Len(rows) + 1, bad))
                         ELSE console
           /\ rows' = IF p[1] THEN Append(rows, <<p[2]>> \o _convert_number(p[2])) ELSE rows
    /\ UNCHANGED <<pc, tool, file_state, lines, all_words, results_file, status>>
    /\ UNCHANGED <<statVars, countVars, convVars, parseVars>>

\* convertNumbers.py, _read_rows: one iteration of the loop
ConvReadRow ==
    /\ tool = "conv" /\ CanRead
    /\ LET raw == lines[line_num + 1]
           p == _parse_int(raw)
           bad == strip(raw)
       IN  /\ line_num' = line_num + 1
           /\ console' = IF ~p[1] /\ bad # <<>>
                         THEN Append(console, Invalid(line_num + 1, bad))
                         ELSE console
           /\ rows' = IF p[1] THEN Append(rows, <<p[2]>> \o _convert_number(p[2])) ELSE rows
    /\ UNCHANGED <<pc, tool, file_state, lines, all_words, results_file, status>>
    /\ UNCHANGED <<statVars, countVars, convVars, parseVars>>

\* convertNumbers.py, main after _read_rows returned the rows
ConvFinish ==
    /\ tool = "conv" /\ AtEnd
    /\ Emit(conv_build_report(rows))
    /\ UNCHANGED <<tool, file_state, lines, line_num, rows, all_words>>
    /\ UNCHANGED <<statVars, countVars, convVars, parseVars>>

\* wordCount.py, main: one iteration of the read loop.  The lines of the model
\* carry no terminator, so raw_line.strip("\n") is the line itself.
WordsReadLine ==
    /\ tool = "words" /\ CanRead
    /\ LET ln == lines[line_num + 1]
           ws == _tokenize(ln)
       IN  /\ line_num' = line_num + 1
           /\ IF strip(ln) = <<>>
              THEN /\ console' = Append(console, Invalid(line_num + 1, "empty line"))
                   /\ UNCHANGED all_words
              ELSE IF ws = <<>>
              THEN /\ console' = Append(console, Invalid(line_num + 1, "no words"))
                   /\ UNCHANGED all_words
              ELSE /\ all_words' = all_words \o ws
                   /\ UNCHANGED console
    /\ UNCHANGED <<pc, tool, file_state, lines, rows, results_file, status>>
    /\ UNCHANGED <<statVars, countVars, convVars, parseVars>>

\* wordCount.py, main after the read loop
WordsFinish ==
    /\ tool = "words" /\ AtEnd
    /\ LET co == _count_words(all_words)
       IN  /\ words' = all_words
           /\ pos' = Len(all_words)
           /\ counts' = co.counts
           /\ order' = co.order
           /\ Emit(words_build_report(co.counts, co.order))
    /\ UNCHANGED <<tool, file_state, lines, line_num, rows, all_words>>
    /\ UNCHANGED <<statVars, convVars, parseVars>>

Next ==
    \/ ReadError
    \/ StatsReadLine
    \/ StatsFinish
    \/ ConvReadRow
    \/ ConvFinish
    \/ WordsReadLine
    \/ WordsFinish

Spec == Init /\ [][Next]_vars

----------------------------------------------------------------------------
(* Studies of single functions: the argument is drawn by the initial       *)
(* state and one call (or one loop iteration) is one step                  *)

\* _convert_number(n) for -MaxNeg <= n <= MaxN
InitConvert ==
    /\ pc = "call" /\ tool = "_convert_number"
    /\ n \in (-MaxNeg)..MaxN
    /\ bin_s = <<>> /\ hex_s = <<>>
    /\ values = <<>> /\ result = None
    /\ words = <<>> /\ pos = 0 /\ counts = <<>> /\ order = <<>>
    /\ line = <<>> /\ ok = FALSE /\ value = None
    /\ RunIdle

ConvertNumber ==
    /\ pc = "call" /\ tool = "_convert_number"
    /\ bin_s' = _convert_number(n)[1]
    /\ hex_s' = _convert_number(n)[2]
    /\ pc' = "return"
    /\ UNCHANGED <<n, runVars, statVars, countVars, parseVars>>

SpecConvert == InitConvert /\ [][ConvertNumber]_vars

\* _parse_int(line) for every text over ParseAlphabet of length <= MaxLen
ParseAlphabet == {" ", "+", "-", "/", "0", "5", "9", ":"}

InitParse ==
    /\ pc = "call" /\ tool = "_parse_int"
    /\ line \in SeqsUpTo(ParseAlphabet, MaxLen)
    /\ ok = FALSE /\ value = None
    /\ values = <<>> /\ result = None
    /\ words = <<>> /\ pos = 0 /\ counts = <<>> /\ order = <<>>
    /\ n = 0 /\ bin_s = <<>> /\ hex_s = <<>>
    /\ RunIdle

ParseInt ==
    /\ pc = "call" /\ tool = "_parse_int"
    /\ ok' = _parse_int(line)[1]
    /\ value' = _parse_int(line)[2]
    /\ pc' = "return"
    /\ UNCHANGED <<line, runVars, statVars, countVars, convVars>>

SpecParse == InitParse /\ [][ParseInt]_vars

\* _compute_statistics(values) for every non-empty sequence over StudyValues of
\* length <= MaxValues (main never calls it on an empty one)
StudyValues ==
    { Float(Scale), Float(2 * Scale), Float(3 * Scale), Float(4 * Scale),
      Float(5 * Scale), NaN }

InitStatistics ==
    /\ pc = "call" /\ tool = "_compute_statistics"
    /\ values \in SeqsUpTo(StudyValues, MaxValues) \ {<<>>}
    /\ result = None
    /\ words = <<>> /\ pos = 0 /\ counts = <<>> /\ order = <<>>
    /\ n = 0 /\ bin_s = <<>> /\ hex_s = <<>>
    /\ line = <<>> /\ ok = FALSE /\ value = None
    /\ RunIdle

ComputeStatistics ==
    /\ pc = "call" /\ tool = "_compute_statistics"
    /\ result' = _compute_statistics(values)
    /\ pc' = "return"
    /\ UNCHANGED <<values, runVars, countVars, convVars, parseVars>>

SpecStatistics == InitStatistics /\ [][ComputeStatistics]_vars

\* _count_words(words) for every sequence over StudyWords of length <= MaxWords,
\* one iteration of its loop per step
StudyWords == { <<"a">>, <<"b">>, <<"c">>, <<"A">> }

InitCount ==
    /\ pc = "call" /\ tool = "_count_words"
    /\ words \in SeqsUpTo(StudyWords, MaxWords)
    /\ pos = 0 /\ counts = <<>> /\ order = <<>>
    /\ values = <<>> /\ result = None
    /\ n = 0 /\ bin_s = <<>> /\ hex_s = <<>>
    /\ line = <<>> /\ ok = FALSE /\ value = None
    /\ RunIdle

CountWord ==
    /\ pc = "call" /\ tool = "_count_words"
    /\ pos < Len(words)
    /\ LET co == count_word([counts |-> counts, order |-> order], words[pos + 1])
       IN  /\ counts' = co.counts
           /\ order' = co.order
    /\ pos' = pos + 1
    /\ UNCHANGED <<pc, words, runVars, statVars, convVars, parseVars>>

SpecCount == InitCount /\ [][CountWord]_vars

----------------------------------------------------------------------------
(* Properties                                                              *)

\* the value of a hex digit, and of a digit string in a base, by positional weight
DigitValue(ch) == (CHOOSE i \in 1..16 : HexDigits[i] = ch) - 1

BaseValue(s, base) ==
    LET weight[i \in 0..Len(s)] == IF i = 0 THEN 1 ELSE base * weight[i - 1]
        sum[i \in 0..Len(s)] ==
            IF i = 0 THEN 0 ELSE sum[i - 1] + DigitValue(s[i]) * weight[Len(s) - i]
    IN  sum[Len(s)]

OverAlphabet(s, k) == \A i \in 1..Len(s) : \E d \in 1..k : s[i] = HexDigits[d]

Converted == pc = "return" /\ tool = "_convert_number"

\* 2^40 + m written with 10 hex digits, for -512 <= m <= -1: 2^40 + m is
\* FFFFFFF000 + (4096 + m), and 4096 + m has the three hex digits E00 .. FFF
SignExtendedHex(m) ==
    LET low == 4096 + m
    IN  repeat("F", 7) \o << HexDigits[(low \div 256) + 1],
                             HexDigits[((low \div 16) % 16) + 1],
                             HexDigits[(low % 16) + 1] >>

\* C1: for -512 <= n <= -1 the hex string of _convert_number(n) is n sign-extended
\* with F to exactly 10 hex digits, the hex rendering of 2^40 + n
C1_NegativeHexIsSignExtension ==
    (Converted /\ -512 <= n /\ n <= -1) => hex_s = SignExtendedHex(n)

\* C2: for every negative n the binary string of _convert_number(n) has exactly 10
\* characters, each 0 or 1, and for -1024 <= n <= -1 its base-2 value is 2^10 + n
C2_NegativeBinaryTenBits ==
    (Converted /\ n < 0) =>
        /\ Len(bin_s) = 10
        /\ OverAlphabet(bin_s, 2)
        /\ (n >= -1024 => BaseValue(bin_s, 2) = 1024 + n)

C2_Witness ==
    /\ Converted /\ n = -6
    /\ bin_s = <<"1", "1", "1", "1", "1", "1", "1", "0", "1", "0">>

\* C3: for every n >= 0 the strings of _convert_number(n) are over 0-1 and over
\* 0-9A-F, read in base 2 and base 16 they both give n back, and 0 is "0" in both
C3_NonNegativeRoundTrip ==
    (Converted /\ n >= 0) =>
        /\ bin_s # <<>> /\ OverAlphabet(bin_s, 2) /\ BaseValue(bin_s, 2) = n
        /\ hex_s # <<>> /\ OverAlphabet(hex_s, 16) /\ BaseValue(hex_s, 16) = n
        /\ (n = 0 => bin_s = <<"0">> /\ hex_s = <<"0">>)

C3_Witness ==
    /\ Converted /\ n = 171
    /\ bin_s = <<"1", "0", "1", "0", "1", "0", "1", "1">>
    /\ hex_s = <<"A", "B">>

Parsed == pc = "return" /\ tool = "_parse_int"

\* the text between the leading and the trailing whitespace of s
Trimmed(s) ==
    LET inner == {<<a, b>> \in (1..(Len(s) + 1)) \X (0..Len(s)) :
                    /\ a <= b + 1
                    /\ \A i \in 1..Len(s) : (i < a \/ i > b) => s[i] \in {" ", "\t"}
                    /\ a <= b => (s[a] \notin {" ", "\t"} /\ s[b] \notin {" ", "\t"})}
        ab == CHOOSE x \in inner : x[2] - x[1] = -1 \/ Cardinality(inner) = 1
    IN  SubSeq(s, ab[1], ab[2])

DecimalDigits == {"0", "1", "2", "3", "4", "5", "6", "7", "8", "9"}

\* the digits of t once an optional single leading sign is removed
Unsigned(t) == IF t # <<>> /\ t[1] \in {"+", "-"} THEN Tail(t) ELSE t

WellFormedInt(t) ==
    /\ Unsigned(t) # <<>>
    /\ \A i \in 1..Len(Unsigned(t)) : Unsigned(t)[i] \in DecimalDigits

\* C10: _parse_int accepts a line exactly when its trimmed text is an optional single
\* sign followed by one or more ASCII digits, and then returns sign * base-10 value
C10_ParseIntGrammar ==
    Parsed =>
        LET t == Trimmed(line)
        IN  /\ ok <=> WellFormedInt(t)
            /\ ok => value = (IF t[1] = "-" THEN -1 ELSE 1) * BaseValue(Unsigned(t), 10)

C10_Witness ==
    /\ Parsed /\ line = <<" ", "-", "5", "9">>
    /\ ok /\ value = -59

Computed == pc = "return" /\ tool = "_compute_statistics"

\* how many positions of vs hold a value equal to v, and the first of them
Occurrences(vs, v) == Cardinality({i \in 1..Len(vs) : FloatEq(vs[i], v)})
FirstIndex(vs, v) == CHOOSE i \in 1..Len(vs) :
                        FloatEq(vs[i], v) /\ \A j \in 1..(i - 1) : ~FloatEq(vs[j], v)

NoValueRepeats(vs) == \A i, j \in 1..Len(vs) : i < j => ~FloatEq(vs[i], vs[j])

\* vs[k] has the maximum frequency and, among the values that have it, the
\* smallest first occurrence
IsEarliestMostFrequent(vs, k) ==
    /\ Occurrences(vs, vs[k]) > 1
    /\ \A j \in 1..Len(vs) :
          /\ Occurrences(vs, vs[j]) <= Occurrences(vs, vs[k])
          /\ Occurrences(vs, vs[j]) = Occurrences(vs, vs[k])
                => FirstIndex(vs, vs[k]) <= FirstIndex(vs, vs[j])

\* C4: the mode is #N/A exactly when no value occurs more than once; otherwise it is
\* the value of maximum frequency whose first occurrence is the earliest
C4_ModeEarliestMostFrequent ==
    Computed =>
        /\ (result.mode = NA) <=> NoValueRepeats(values)
        /\ ~NoValueRepeats(values) =>
              \E k \in 1..Len(values) :
                  /\ IsEarliestMostFrequent(values, k)
                  /\ result.mode = _format_number(values[k])

C4_Witness ==
    /\ Computed
    /\ values = <<Float(5 * Scale), Float(3 * Scale), Float(5 * Scale), Float(3 * Scale)>>
    /\ result.mode = <<"5">>

Counting == tool = "_count_words"

\* the elements of a sequence
Range(sq) == {sq[i] : i \in 1..Len(sq)}

RECURSIVE SumOver(_, _)
SumOver(f, S) ==
    IF S = {} THEN 0 ELSE LET x == CHOOSE x \in S : TRUE IN f[x] + SumOver(f, S \ {x})

\* C5: after every prefix of the words, order holds each distinct word seen exactly
\* once in first-occurrence order, its elements are the keys of counts, and the
\* counts add up to the number of words processed (each being the word's frequency)
C5_OrderAndCounts ==
    Counting =>
        LET seen == SubSeq(words, 1, pos)
            first(w) == CHOOSE i \in 1..pos : seen[i] = w /\ \A j \in 1..(i - 1) : seen[j] # w
        IN  /\ Range(order) = Range(seen)
            /\ \A i, j \in 1..Len(order) : i < j => first(order[i]) < first(order[j])
            /\ DOMAIN counts = Range(order)
            /\ \A w \in DOMAIN counts : counts[w] = Cardinality({i \in 1..pos : seen[i] = w})
            /\ SumOver(counts, DOMAIN counts) = pos

C5_Witness ==
    /\ Counting /\ pos = 6
    /\ words = << <<"b">>, <<"a">>, <<"b">>, <<"c">>, <<"a">>, <<"a">> >>
    /\ order = << <<"b">>, <<"a">>, <<"c">> >>
    /\ counts[<<"b">>] = 2 /\ counts[<<"a">>] = 3 /\ counts[<<"c">>] = 1

StatsRun == tool = "stats"

\* the values of the lines that _try_parse_number accepts, in the order of the lines
RECURSIVE AcceptedValues(_)
AcceptedValues(ls) ==
    IF ls = <<>> THEN <<>>
    ELSE (IF _try_parse_number(Head(ls))[1] THEN <<_try_parse_number(Head(ls))[2]>> ELSE <<>>)
         \o AcceptedValues(Tail(ls))

ReportLines(out) == SelectSeq(out, LAMBDA e : e.kind = "report")
InvalidLines(out) == SelectSeq(out, LAMBDA e : e.kind = "invalid")

\* C6: the values built by the read loop are the parsed values of the accepted lines
\* read so far, in input order; only an I/O error ends the loop before the last line;
\* the reported COUNT is the number of accepted lines
C6_ValuesAreAcceptedLines ==
    StatsRun =>
        /\ values = AcceptedValues(SubSeq(lines, 1, line_num))
        /\ (pc = "done" /\ file_state = "ok") => line_num = Len(lines)
        /\ (pc = "done" /\ status = 0) =>
              /\ result.count = Len(AcceptedValues(lines))
              /\ ReportLines(console)[1] = ReportLine("COUNT", Len(AcceptedValues(lines)))

C6_Witness ==
    /\ StatsRun /\ pc = "done" /\ status = 0
    /\ Len(lines) = 3 /\ lines[2] = <<"1", "x">> /\ lines[3] = <<"2">>
    /\ result.count = 2
    /\ values = <<Float(Scale), Float(2 * Scale)>>

Blank(l) == \A i \in 1..Len(l) : l[i] \in {" ", "\t"}

\* the line is rejected by the tool's classifier: a line that is not numeric (stats,
\* conv) and not blank, or a blank line (words)
Rejected(t, l) ==
    IF t = "words" THEN Blank(l)
    ELSE ~Blank(l) /\ ~(IF t = "stats" THEN _try_parse_number(l)[1] ELSE _parse_int(l)[1])

\* the 1-based numbers of the rejected lines among the first k, ascending
RECURSIVE RejectedNumbers(_, _, _)
RejectedNumbers(t, ls, k) ==
    IF k = 0 THEN <<>>
    ELSE RejectedNumbers(t, ls, k - 1) \o (IF Rejected(t, ls[k]) THEN <<k>> ELSE <<>>)

BlankCount(ls, k) == Cardinality({i \in 1..k : Blank(ls[i])})

\* C7: in the three tools every rejected line read so far has exactly one console
\* diagnostic, carrying its 1-based raw line number; diagnostics come before the
\* report and never reach the results file; a line is dropped without diagnostic
\* only when it is blank, in the statistics and conversion tools, and the
\* word-count tool reports its blank lines
C7_DiagnosticsOnConsoleOnly ==
    tool \in Tools =>
        LET diag == InvalidLines(console)
        IN  /\ [i \in 1..Len(diag) |-> diag[i].line_num] = RejectedNumbers(tool, lines, line_num)
            /\ \A i, j \in 1..Len(console) :
                  (i < j /\ console[i].kind = "report") => console[j].kind # "invalid"
            /\ \A i \in 1..Len(results_file) : results_file[i].kind = "report"
            /\ tool = "stats" => Len(values) + Len(diag) + BlankCount(lines, line_num) = line_num
            /\ tool = "conv" => Len(rows) + Len(diag) + BlankCount(lines, line_num) = line_num
            /\ tool = "words" => Len(diag) = BlankCount(lines, line_num)

C7_Witness ==
    /\ tool = "conv" /\ pc = "done" /\ status = 0
    /\ lines = << <<>>, <<"5">>, <<"x">> >>
    /\ InvalidLines(console) = <<Invalid(3, <<"x">>)>>
    /\ Len(rows) = 1
    /\ results_file = ReportLines(console)

\* C8: a statistics run returns 1 and emits no report, on the console or in the
\* results file, when the file is missing or unreadable or no line is accepted;
\* every other run prints the report and returns 0, a failed write of the results
\* file adding only a warning
C8_StatusAndReport ==
    (StatsRun /\ pc = "done") =>
        IF file_state # "ok" \/ AcceptedValues(lines) = <<>>
        THEN /\ status = 1
             /\ ReportLines(console) = <<>>
             /\ results_file = <<>>
        ELSE /\ status = 0
             /\ ReportLines(console) = stats_build_report(result)
             /\ \/ results_file = ReportLines(console)
                \/ console[Len(console)] = Warning

C8_Witness ==
    /\ StatsRun /\ pc = "done" /\ status = 0
    /\ file_state = "ok"
    /\ console[Len(console)] = Warning
    /\ results_file # ReportLines(console)
    /\ Len(ReportLines(console)) = 7

\* no element is less than an earlier one
Ascending(sq) == \A i, j \in 1..Len(sq) : i < j => ~FloatLt(sq[j], sq[i])

\* the orders in which the values vs can come
Arrangements(vs) == {[i \in 1..Len(vs) |-> vs[f[i]]] : f \in Permutations(1..Len(vs))}

\* the middle element, or the average of the two middle elements
MiddleOf(sq) ==
    IF Len(sq) % 2 = 1 THEN sq[(Len(sq) + 1) \div 2]
    ELSE FloatHalf(FloatAdd(sq[Len(sq) \div 2], sq[(Len(sq) \div 2) + 1]))

\* C9: the reported median is the middle of the values sorted ascending (the middle
\* element, or the average of the two middle elements) and does not depend on the
\* order in which the values came
C9_MedianOfSortedValues ==
    (StatsRun /\ pc = "done" /\ status = 0) =>
        /\ \E sq \in Arrangements(values) : Ascending(sq) /\ result.median = MiddleOf(sq)
        /\ \A p \in Arrangements(values) : _median(sorted(p)) = result.median

====
